---- MODULE Spec2Model ----
(***************************************************************************)
(* Model of the Google Ads tool endpoint: the tool registry of            *)
(* src/mcpAdsServer.ts (listAdsTools, callAdsTool, the zod validators and *)
(* the two tools) and the two versions of the api/mcp.ts request handler. *)
(*                                                                         *)
(* Every invocation is independent: the only state that outlives one is   *)
(* the process environment and the module-level tools table.  `cur` is    *)
(* the frame of the invocation that has just run (its input, the outbound *)
(* calls it made, what it returned); Finish discards it.  `firstList` and *)
(* `listings` are history variables: what the first listAdsTools call     *)
(* returned, and how many listings there have been (counted to            *)
(* MaxListings).                                                           *)
(***************************************************************************)
EXTENDS Integers, Sequences, FiniteSets, TLC

VARIABLES env, tools, firstList, listings, cur

vars == <<env, tools, firstList, listings, cur>>

MaxListings == 2

(***************************************************************************)
(* JSON values.  A value is a record [t, s, n]: t is the JavaScript kind   *)
(* ("undef" for an absent key), s the text of a string, n the value of an  *)
(* integer; "frac" is a number that is not an integer (n + 1/2).           *)
(***************************************************************************)
Undef == [t |-> "undef", s |-> "", n |-> 0]

Null == [t |-> "null", s |-> "", n |-> 0]

Str(x) == [t |-> "str", s |-> x, n |-> 0]

Int_(k) == [t |-> "int", s |-> "", n |-> k]

Frac(k) == [t |-> "frac", s |-> "", n |-> k]

\* JavaScript truthiness of a value (the tests `!method`, `!name`, `body?.jsonrpc ? ..`).
Truthy(v) ==
    CASE v.t = "undef" -> FALSE
      [] v.t = "null" -> FALSE
      [] v.t = "str" -> v.s # ""
      [] v.t = "int" -> v.n # 0
      [] OTHER -> TRUE

\* A dateRange value: absent, null, a string, or an object with the keys it carries.
DateRangeObj(a, b, x) == [t |-> "obj", startDate |-> a, endDate |-> b, foo |-> x]

DateRangeOther(kind) == [t |-> kind, startDate |-> Undef, endDate |-> Undef, foo |-> Undef]

\* A raw arguments value: an object with the keys it carries, or something else.
ArgsObj(g, p, l, d, x) ==
    [t |-> "obj", gaql |-> g, pageSize |-> p, limit |-> l, dateRange |-> d, foo |-> x]

ArgsOther(kind) ==
    [t |-> kind, gaql |-> Undef, pageSize |-> Undef, limit |-> Undef,
     dateRange |-> DateRangeOther("undef"), foo |-> Undef]

EmptyArgs == ArgsObj(Undef, Undef, Undef, DateRangeOther("undef"), Undef)

ArgKeys == {"gaql", "pageSize", "limit", "dateRange", "foo"}

\* The keys an arguments object carries.
Present(a) == {k \in ArgKeys : a[k].t # "undef"}

DateRangeKeys == {"startDate", "endDate", "foo"}

PresentInRange(d) == {k \in DateRangeKeys : d[k].t # "undef"}

(***************************************************************************)
(* Validation (zod).  z.object() strips the keys it does not declare;      *)
(* .default(v) replaces undefined only.  A parse returns [ok, value].      *)
(***************************************************************************)
GaqlMinLen == 3

PageSizeMin == 1

PageSizeMax == 10000

PageSizeDefault == 1000

LimitMin == 1

LimitMax == 1000

LimitDefault == 10

Failed == [ok |-> FALSE, value |-> EmptyArgs]

\* zBoundedInt without the .max(hi) check.
zBoundedIntNoMax(v, lo, hi, dflt) ==
    IF v.t = "undef" THEN [ok |-> TRUE, n |-> dflt]
    ELSE IF v.t = "int" /\ v.n >= lo THEN [ok |-> TRUE, n |-> v.n]
    ELSE [ok |-> FALSE, n |-> 0]

\* z.number().int().min(lo).max(hi).default(dflt)
zBoundedInt(v, lo, hi, dflt) ==
    IF v.t = "undef" THEN [ok |-> TRUE, n |-> dflt]
    ELSE IF v.t = "int" /\ v.n >= lo /\ v.n <= hi THEN [ok |-> TRUE, n |-> v.n]
    ELSE [ok |-> FALSE, n |-> 0]

zSearch(input) ==
    LET ps == zBoundedInt(input.pageSize, PageSizeMin, PageSizeMax, PageSizeDefault)
    IN  IF /\ input.t = "obj"
           /\ input.gaql.t = "str"
           /\ Len(input.gaql.s) >= GaqlMinLen
           /\ ps.ok
        THEN [ok |-> TRUE,
              value |-> ArgsObj(input.gaql, Int_(ps.n), Undef, DateRangeOther("undef"), Undef)]
        ELSE Failed

DefaultDateRange == DateRangeObj(Str("LAST_7_DAYS"), Str("TODAY"), Undef)

\* z.object({ startDate: z.string(), endDate: z.string() }).default({...})
zDateRange(d) ==
    IF d.t = "undef" THEN [ok |-> TRUE, value |-> DefaultDateRange]
    ELSE IF d.t = "obj" /\ d.startDate.t = "str" /\ d.endDate.t = "str"
         THEN [ok |-> TRUE, value |-> DateRangeObj(d.startDate, d.endDate, Undef)]
         ELSE [ok |-> FALSE, value |-> DefaultDateRange]

zTopCampaigns(input) ==
    LET lim == zBoundedInt(input.limit, LimitMin, LimitMax, LimitDefault)
        dr  == zDateRange(input.dateRange)
    IN  IF input.t = "obj" /\ lim.ok /\ dr.ok
        THEN [ok |-> TRUE, value |-> ArgsObj(Undef, Undef, Int_(lim.n), dr.value, Undef)]
        ELSE Failed

(***************************************************************************)
(* The tool registry: the module-level table `tools` and the JSON Schema   *)
(* each tool publishes.                                                    *)
(***************************************************************************)
SearchInputSchema ==
    [type |-> "object",
     additionalProperties |-> FALSE,
     properties |->
        [gaql |-> [type |-> "string"],
         pageSize |-> [type |-> "integer", minimum |-> 1, maximum |-> 10000]],
     required |-> {"gaql"}]

TopCampaignsInputSchema ==
    [type |-> "object",
     additionalProperties |-> FALSE,
     properties |->
        [limit |-> [type |-> "integer", minimum |-> 1, maximum |-> 1000],
         dateRange |->
            [type |-> "object",
             additionalProperties |-> FALSE,
             properties |-> [startDate |-> [type |-> "string"],
                             endDate |-> [type |-> "string"]],
             required |-> {"startDate", "endDate"}]],
     required |-> {}]

ToolsTable ==
    [ads_search |->
        [name |-> "ads_search",
         title |-> "Google Ads: GAQL Search",
         description |-> "Run a GAQL query against Google Ads (search).",
         inputSchema |-> SearchInputSchema],
     ads_top_campaigns |->
        [name |-> "ads_top_campaigns",
         title |-> "Google Ads: Top Campaigns (last 7 days)",
         description |-> "Returns top campaigns by clicks over the last 7 days.",
         inputSchema |-> TopCampaignsInputSchema]]

\* The order in which the keys were added to the table (Object.values order).
InsertionOrder == <<"ads_search", "ads_top_campaigns">>

\* Keys every object literal inherits from Object.prototype: tools[name] is
\* defined for them, but the value has neither validate nor run.
InheritedKeys == {"constructor"}

\* What a value must be for a JSON Schema property description to accept it.
PropertyAccepts(p, v) ==
    CASE p.type = "string" -> v.t = "str"
      [] p.type = "integer" -> v.t = "int" /\ v.n >= p.minimum /\ v.n <= p.maximum
      [] p.type = "object" ->
            /\ v.t = "obj"
            /\ p.required \subseteq PresentInRange(v)
            /\ (~p.additionalProperties => PresentInRange(v) \subseteq DOMAIN p.properties)
            /\ \A k \in PresentInRange(v) \cap DOMAIN p.properties :
                  p.properties[k].type = "string" => v[k].t = "str"
      [] OTHER -> FALSE

\* Whether an arguments value conforms to a published input schema.
SchemaAccepts(schema, a) ==
    /\ a.t = "obj"
    /\ schema.required \subseteq Present(a)
    /\ (~schema.additionalProperties => Present(a) \subseteq DOMAIN schema.properties)
    /\ \A k \in Present(a) \cap DOMAIN schema.properties :
          PropertyAccepts(schema.properties[k], a[k])

(***************************************************************************)
(* Outbound calls.  `tokenOk` and `upstream` are what the credential       *)
(* exchange and the reporting API answer; `net` lists the outbound calls   *)
(* made, in order.                                                         *)
(***************************************************************************)
TokenCall == [kind |-> "token", query |-> "", pageSize |-> 0]

SearchCall(gaql, pageSize) == [kind |-> "search", query |-> gaql, pageSize |-> pageSize]

NoData == [hasResults |-> FALSE, rows |-> 0]

\* getAdsEnv: the name of the missing setting, or "" when both are present.
getAdsEnv ==
    IF ~env.devToken THEN "Missing GOOGLE_ADS_DEVELOPER_TOKEN"
    ELSE IF ~env.customerId THEN "Missing GOOGLE_ADS_CUSTOMER_ID"
    ELSE ""

\* getAccessToken: one exchange when credential material is configured.
getAccessToken(tokenOk) ==
    IF env.hasCreds
    THEN [ok |-> tokenOk, net |-> <<TokenCall>>]
    ELSE [ok |-> FALSE, net |-> <<>>]

\* adsSearch with one retry of the request after a non-success response.
adsSearchRetry(gaql, pageSize, tokenOk, upstream) ==
    LET tok == getAccessToken(tokenOk)
    IN  IF getAdsEnv # ""
        THEN [ok |-> FALSE, err |-> "MissingEnv", data |-> NoData, net |-> <<>>]
        ELSE IF ~tok.ok
        THEN [ok |-> FALSE, err |-> "Credential", data |-> NoData, net |-> tok.net]
        ELSE IF ~upstream.ok
        THEN [ok |-> FALSE, err |-> "Upstream", data |-> NoData,
              net |-> tok.net \o <<SearchCall(gaql, pageSize), SearchCall(gaql, pageSize)>>]
        ELSE [ok |-> TRUE, err |-> "",
              data |-> [hasResults |-> upstream.hasResults, rows |-> upstream.rows],
              net |-> tok.net \o <<SearchCall(gaql, pageSize)>>]

adsSearch(gaql, pageSize, tokenOk, upstream) ==
    LET tok == getAccessToken(tokenOk)
    IN  IF getAdsEnv # ""
        THEN [ok |-> FALSE, err |-> "MissingEnv", data |-> NoData, net |-> <<>>]
        ELSE IF ~tok.ok
        THEN [ok |-> FALSE, err |-> "Credential", data |-> NoData, net |-> tok.net]
        ELSE IF ~upstream.ok
        THEN [ok |-> FALSE, err |-> "Upstream", data |-> NoData,
              net |-> tok.net \o <<SearchCall(gaql, pageSize)>>]
        ELSE [ok |-> TRUE, err |-> "",
              data |-> [hasResults |-> upstream.hasResults, rows |-> upstream.rows],
              net |-> tok.net \o <<SearchCall(gaql, pageSize)>>]

\* (data as any)?.results ?? []  -- the number of rows.
RowsOf(data) == IF data.hasResults THEN data.rows ELSE 0

\* What one callAdsTool invocation ends with.
Outcome(kind, text, rows, net) == [kind |-> kind, text |-> text, rows |-> rows, net |-> net]

NoOutcome == Outcome("none", "", 0, <<>>)

SearchSummary(rows) == "Returned " \o ToString(rows) \o " rows."

\* tools["ads_search"].run
runSearch(input, tokenOk, upstream) ==
    LET args == zSearch(input)
        r    == adsSearch(args.value.gaql.s, args.value.pageSize.n, tokenOk, upstream)
    IN  IF ~args.ok THEN Outcome("ZodError", "", 0, <<>>)
        ELSE IF ~r.ok THEN Outcome(r.err, "", 0, r.net)
        ELSE Outcome("result", SearchSummary(RowsOf(r.data)), RowsOf(r.data), r.net)

\* The query template with the default limit in place of the validated one.
TopCampaignsQueryFixedLimit(start, end, limit) ==
    "\n      SELECT\n        campaign.id,\n        campaign.name,\n        metrics.impressions,\n        metrics.clicks,\n        metrics.ctr,\n        metrics.cost_micros\n      FROM campaign\n      WHERE segments.date BETWEEN '"
    \o start \o "' AND '" \o end
    \o "'\n      ORDER BY metrics.clicks DESC\n      LIMIT " \o ToString(LimitDefault) \o "\n    "

\* The query template of ads_top_campaigns.
TopCampaignsQuery(start, end, limit) ==
    "\n      SELECT\n        campaign.id,\n        campaign.name,\n        metrics.impressions,\n        metrics.clicks,\n        metrics.ctr,\n        metrics.cost_micros\n      FROM campaign\n      WHERE segments.date BETWEEN '"
    \o start \o "' AND '" \o end
    \o "'\n      ORDER BY metrics.clicks DESC\n      LIMIT " \o ToString(limit) \o "\n    "

TopCampaignsSummary(rows, start, end) ==
    "Top " \o ToString(rows) \o " campaigns by clicks (" \o start \o ".." \o end \o ")."

\* tools["ads_top_campaigns"].run
runTopCampaigns(input, tokenOk, upstream) ==
    LET args  == zTopCampaigns(input)
        start == args.value.dateRange.startDate.s
        end   == args.value.dateRange.endDate.s
        gaql  == TopCampaignsQuery(start, end, args.value.limit.n)
        r     == adsSearch(gaql, args.value.limit.n, tokenOk, upstream)
    IN  IF ~args.ok THEN Outcome("ZodError", "", 0, <<>>)
        ELSE IF ~r.ok THEN Outcome(r.err, "", 0, r.net)
        ELSE Outcome("result", TopCampaignsSummary(RowsOf(r.data), start, end),
                     RowsOf(r.data), r.net)

\* t.validate(args) of the tool registered under `name`.
validate(name, input) ==
    IF name = "ads_search" THEN zSearch(input) ELSE zTopCampaigns(input)

\* t.run(parsed) of the tool registered under `name`.
run(name, input, tokenOk, upstream) ==
    IF name = "ads_search" THEN runSearch(input, tokenOk, upstream)
    ELSE runTopCampaigns(input, tokenOk, upstream)

callAdsTool(name, args, tokenOk, upstream) ==
    IF name \notin DOMAIN tools \cup InheritedKeys
    THEN Outcome("UnknownTool", "", 0, <<>>)
    ELSE IF name \notin DOMAIN tools
    THEN Outcome("TypeError", "", 0, <<>>)
    ELSE LET parsed == validate(name, args)
         IN  IF ~parsed.ok THEN Outcome("ZodError", "", 0, <<>>)
             ELSE run(name, parsed.value, tokenOk, upstream)

\* A listing entry whose simplified `parameters` form is left open.
DescriptorOpen(t) ==
    [name |-> t.name,
     title |-> t.title,
     description |-> t.description,
     inputSchema |-> t.inputSchema,
     input_schema |-> t.inputSchema,
     parameters |->
        [type |-> "object",
         properties |-> t.inputSchema.properties,
         required |-> t.inputSchema.required,
         additionalProperties |-> TRUE]]

\* One entry of the listing.
Descriptor(t) ==
    [name |-> t.name,
     title |-> t.title,
     description |-> t.description,
     inputSchema |-> t.inputSchema,
     input_schema |-> t.inputSchema,
     parameters |->
        [type |-> "object",
         properties |-> t.inputSchema.properties,
         required |-> t.inputSchema.required,
         additionalProperties |-> FALSE]]

listAdsTools ==
    [i \in 1..Len(InsertionOrder) |-> Descriptor(tools[InsertionOrder[i]])]

(***************************************************************************)
(* The request handler, api/mcp.ts.  A response is the status, the set of  *)
(* top-level keys of the JSON body, the value of its id key (Undef when    *)
(* the body has no id key), the error code (0 when there is none) and the  *)
(* keys of the error object.                                               *)
(***************************************************************************)
InvalidRequest == -32600

MethodNotFound == -32601

InvalidParams == -32602

ServerError == -32000

Response(status, keys, id, code, errorKeys) ==
    [status |-> status, keys |-> keys, id |-> id, code |-> code, errorKeys |-> errorKeys]

NoResponse == Response(0, {}, Undef, 0, {})

HelpKeys == {"mcp", "message", "endpoints"}

InitializeKeys == {"protocolVersion", "serverInfo", "capabilities"}

AcknowledgedKeys == {"acknowledged"}

ListKeys == {"tools", "actions"}

CallResultKeys == {"content", "structuredContent"}

NoFields ==
    [jsonrpc |-> Undef, id |-> Undef, method |-> Undef, name |-> Undef,
     arguments |-> ArgsOther("undef")]

\* What the handler did: its response, the registry calls it made, and what
\* callAdsTool ended with (NoOutcome when it was not called).
Handled(resp, listCalls, callCalls, out) ==
    [resp |-> resp, listCalls |-> listCalls, callCalls |-> callCalls, out |-> out]

\* body?.id || null: a falsy id (0, "") is lost.
IdOfFalsy(b) == IF ~Truthy(b.id) THEN Null ELSE b.id

\* body?.id ?? null
IdOf(b) == IF b.id.t \in {"undef", "null"} THEN Null ELSE b.id

\* body?.arguments ?? {}
ArgumentsOf(b) == IF b.arguments.t \in {"undef", "null"} THEN EmptyArgs ELSE b.arguments

\* The gate and the GET / non-POST branches, the same in both versions.
Unauthorized(req) == env.gate /\ ~req.authOk

GetReply(req) ==
    IF req.queryMethod \in {"tools/list", "tools.list"}
    THEN Handled(Response(200, ListKeys, Undef, 0, {}), 1, 0, NoOutcome)
    ELSE Handled(Response(200, HelpKeys, Undef, 0, {}), 0, 0, NoOutcome)

UnauthorizedReply == Handled(Response(401, {"error"}, Undef, 0, {}), 0, 0, NoOutcome)

NotAllowedReply == Handled(Response(405, {"error"}, Undef, 0, {}), 0, 0, NoOutcome)

(* ---- the version with sendResult / sendError (src/unnamed/part_000) ---- *)

\* The body after parsing: a string is parsed, and anything that is not an
\* object (or does not parse) becomes {}.
ParseBody(req) ==
    IF req.bodyKind \in {"object", "jsonString"} THEN req.fields ELSE NoFields

sendResult(jsonrpc, id, resultKeys) ==
    IF jsonrpc
    THEN Response(200, {"jsonrpc", "id", "result"}, id, 0, {})
    ELSE Response(200, resultKeys, Undef, 0, {})

\* sendError that sends the bare error object when there is no jsonrpc field.
sendErrorBare(jsonrpc, id, code, extra) ==
    IF jsonrpc
    THEN Response(200, {"jsonrpc", "id", "error"}, id, code, {"code", "message"} \cup extra)
    ELSE Response(400, {"code", "message"} \cup extra, Undef, code, {})

sendError(jsonrpc, id, code, extra) ==
    IF jsonrpc
    THEN Response(200, {"jsonrpc", "id", "error"}, id, code, {"code", "message"} \cup extra)
    ELSE Response(400, {"error"}, Undef, code, {"code", "message"} \cup extra)

Route(body, tokenOk, upstream) ==
    LET jsonrpc == Truthy(body.jsonrpc)
        id      == IdOf(body)
        method  == body.method
        out     == callAdsTool(body.name.s, ArgumentsOf(body), tokenOk, upstream)
    IN  IF ~Truthy(method)
        THEN Handled(sendError(jsonrpc, id, InvalidRequest, {}), 0, 0, NoOutcome)
        ELSE IF method.s = "initialize"
        THEN Handled(sendResult(jsonrpc, id, InitializeKeys), 0, 0, NoOutcome)
        ELSE IF method.s = "notifications/initialized"
        THEN Handled(sendResult(jsonrpc, id, AcknowledgedKeys), 0, 0, NoOutcome)
        ELSE IF method.s \in {"tools.list", "tools/list"}
        THEN Handled(sendResult(jsonrpc, id, ListKeys), 1, 0, NoOutcome)
        ELSE IF method.s \in {"tools.call", "tools/call"}
        THEN IF ~Truthy(body.name)
             THEN Handled(sendError(jsonrpc, id, InvalidParams, {}), 0, 0, NoOutcome)
             ELSE IF out.kind = "result"
             THEN Handled(sendResult(jsonrpc, id, CallResultKeys), 0, 1, out)
             ELSE Handled(sendError(jsonrpc, id, ServerError, {}), 0, 1, out)
        ELSE Handled(sendError(jsonrpc, id, MethodNotFound, HelpKeys), 0, 0, NoOutcome)

handlerReply(req, tokenOk, upstream) ==
    IF Unauthorized(req) THEN UnauthorizedReply
    ELSE IF req.httpMethod = "GET" THEN GetReply(req)
    ELSE IF req.httpMethod # "POST" THEN NotAllowedReply
    ELSE Route(ParseBody(req), tokenOk, upstream)

(* ---- the version with inline replies (src/api/mcp.ts) ---- *)

\* typeof req.body === "object" ? req.body : JSON.parse(req.body || "{}")
\* threw: JSON.parse raised; otherwise the fields the optional chaining reads.
ParseBodyMcp(req) ==
    IF req.bodyKind \in {"object", "jsonString"} THEN [threw |-> FALSE, fields |-> req.fields]
    ELSE IF req.bodyKind = "badString" THEN [threw |-> TRUE, fields |-> NoFields]
    ELSE [threw |-> FALSE, fields |-> NoFields]

\* res.status(s).json(jsonrpc ? { jsonrpc: "2.0", id, result } : result)
mcpResult(jsonrpc, id, resultKeys) ==
    IF jsonrpc
    THEN Response(200, {"jsonrpc", "id", "result"}, id, 0, {})
    ELSE Response(200, resultKeys, Undef, 0, {})

\* res.status(s).json(jsonrpc ? { jsonrpc: "2.0", id, error, ...extra } : { error, ...extra })
mcpError(status, jsonrpc, id, code, extra) ==
    IF jsonrpc
    THEN Response(status, {"jsonrpc", "id", "error"} \cup extra, id, code, {"code", "message"})
    ELSE Response(status, {"error"} \cup extra, Undef, code, {"code", "message"})

\* The outer catch: res.status(500).json({ error })
mcpCatchAll == Response(500, {"error"}, Undef, ServerError, {"code", "message"})

RouteMcp(body, tokenOk, upstream) ==
    LET jsonrpc == Truthy(body.jsonrpc)
        id      == IdOf(body)
        method  == body.method
        out     == callAdsTool(body.name.s, ArgumentsOf(body), tokenOk, upstream)
    IN  IF ~Truthy(method)
        THEN Handled(mcpError(400, jsonrpc, id, InvalidRequest, {}), 0, 0, NoOutcome)
        ELSE IF method.s = "initialize"
        THEN Handled(mcpResult(jsonrpc, id, InitializeKeys), 0, 0, NoOutcome)
        ELSE IF method.s = "notifications/initialized"
        THEN Handled(mcpResult(jsonrpc, id, AcknowledgedKeys), 0, 0, NoOutcome)
        ELSE IF method.s \in {"tools.list", "tools/list"}
        THEN Handled(mcpResult(jsonrpc, id, ListKeys), 1, 0, NoOutcome)
        ELSE IF method.s \in {"tools.call", "tools/call"}
        THEN IF ~Truthy(body.name)
             THEN Handled(mcpError(400, jsonrpc, id, InvalidParams, {}), 0, 0, NoOutcome)
             ELSE IF out.kind = "result"
             THEN Handled(mcpResult(jsonrpc, id, CallResultKeys), 0, 1, out)
             ELSE Handled(mcpError(500, jsonrpc, id, ServerError, {}), 0, 1, out)
        ELSE Handled(mcpError(400, jsonrpc, id, MethodNotFound, HelpKeys), 0, 0, NoOutcome)

handlerMcpReply(req, tokenOk, upstream) ==
    LET parsed == ParseBodyMcp(req)
    IN  IF Unauthorized(req) THEN UnauthorizedReply
        ELSE IF req.httpMethod = "GET" THEN GetReply(req)
        ELSE IF req.httpMethod # "POST" THEN NotAllowedReply
        ELSE IF parsed.threw THEN Handled(mcpCatchAll, 0, 0, NoOutcome)
        ELSE RouteMcp(parsed.fields, tokenOk, upstream)

(***************************************************************************)
(* Inputs.                                                                 *)
(***************************************************************************)
GaqlValues ==
    {Undef, Null, Int_(7), Str(""), Str("ab"), Str("SELECT campaign.id FROM campaign")}

PageSizeValues ==
    {Undef, Null, Str("5"), Frac(1), Int_(0), Int_(1), Int_(5), Int_(10000), Int_(10001),
     Int_(20000)}

LimitValues ==
    {Undef, Str("3"), Frac(2), Int_(0), Int_(1), Int_(3), Int_(1000), Int_(1001)}

ExtraValues == {Undef, Int_(1)}

DateRangeValues ==
    {DateRangeOther("undef"), DateRangeOther("null"), DateRangeOther("str"),
     DateRangeObj(Str("2024-01-01"), Str("2024-01-31"), Undef),
     DateRangeObj(Str("LAST_30_DAYS"), Str("TODAY' OR '1'='1"), Undef),
     DateRangeObj(Str(""), Str(""), Undef),
     DateRangeObj(Str("2024-01-01"), Undef, Undef),
     DateRangeObj(Int_(5), Str("2024-01-31"), Undef),
     DateRangeObj(Str("2024-01-01"), Str("2024-01-31"), Int_(1))}

SearchArguments ==
    {ArgsObj(g, p, Undef, DateRangeOther("undef"), x) :
        g \in GaqlValues, p \in PageSizeValues, x \in ExtraValues}

TopCampaignsArguments ==
    {ArgsObj(Undef, Undef, l, d, x) :
        l \in LimitValues, d \in DateRangeValues, x \in ExtraValues}

\* Arguments that carry a key the other tool declares.
MixedArguments ==
    {ArgsObj(Str("SELECT campaign.id FROM campaign"), Int_(5), Int_(3),
             DateRangeOther("undef"), Undef),
     ArgsObj(Undef, Int_(5), Int_(3), DateRangeOther("undef"), Undef)}

Arguments ==
    SearchArguments \cup TopCampaignsArguments \cup MixedArguments
        \cup {ArgsOther("undef"), ArgsOther("null"), ArgsOther("str")}

Names == {"ads_search", "ads_top_campaigns", "ads_budget", "constructor"}

UpstreamResponses ==
    {[ok |-> TRUE, status |-> 200, hasResults |-> TRUE, rows |-> 2],
     [ok |-> TRUE, status |-> 200, hasResults |-> TRUE, rows |-> 0],
     [ok |-> TRUE, status |-> 200, hasResults |-> FALSE, rows |-> 0],
     [ok |-> FALSE, status |-> 403, hasResults |-> FALSE, rows |-> 0]}

\* The arguments a request body carries.
BodyArguments ==
    {ArgsOther("undef"), ArgsOther("null"),
     ArgsObj(Str("SELECT campaign.id FROM campaign"), Int_(5), Undef,
             DateRangeOther("undef"), Undef),
     ArgsObj(Str("ab"), Int_(0), Undef, DateRangeOther("undef"), Undef),
     ArgsObj(Undef, Undef, Int_(3), DateRangeOther("undef"), Int_(1)),
     ArgsObj(Undef, Undef, Int_(1001),
             DateRangeObj(Str("2024-01-01"), Str("2024-01-31"), Undef), Undef)}

JsonRpcValues == {Undef, Str(""), Str("2.0")}

IdValues == {Undef, Null, Int_(0), Str("req-1")}

MethodValues ==
    {Undef, Str(""), Str("initialize"), Str("notifications/initialized"),
     Str("tools.list"), Str("tools/list"), Str("tools.call"), Str("tools/call"),
     Str("resources/list")}

CallMethods == {Str("tools.call"), Str("tools/call")}

NameValues == {Undef, Str("")} \cup {Str(n) : n \in Names}

Request(httpMethod, authOk, queryMethod, bodyKind, fields) ==
    [httpMethod |-> httpMethod, authOk |-> authOk, queryMethod |-> queryMethod,
     bodyKind |-> bodyKind, fields |-> fields]

NoRequest == Request("", FALSE, "", "undefined", NoFields)

\* Bodies whose fields the handler reads, and bodies with no fields to read.
ObjectKinds == {"object", "jsonString"}

EmptyKinds == {"undefined", "null", "emptyString", "scalar", "badString"}

Fields(j, i, m, n, a) ==
    [jsonrpc |-> j, id |-> i, method |-> m, name |-> n, arguments |-> a]

\* Bodies of requests that are not tool calls: name and arguments are absent.
PlainFields ==
    {Fields(j, i, m, Undef, ArgsOther("undef")) :
        j \in JsonRpcValues, i \in IdValues, m \in MethodValues \ CallMethods}

\* Bodies of tool calls, in the dotted form and (fewer) in the slashed form.
CallFields ==
    {Fields(j, i, Str("tools.call"), n, a) :
        j \in {Undef, Str("2.0")}, i \in {Undef, Int_(0), Str("req-1")}, n \in NameValues,
        a \in BodyArguments}
    \cup {Fields(j, i, Str("tools/call"), Str("ads_top_campaigns"), a) :
            j \in JsonRpcValues, i \in IdValues,
            a \in {ArgsOther("undef"),
                   ArgsObj(Undef, Undef, Int_(3), DateRangeOther("undef"), Int_(1))}}

\* Requests with the right bearer token (or none needed), and a few without.
Requests ==
    {Request("GET", TRUE, q, "undefined", NoFields) :
        q \in {"", "tools/list", "tools.list", "initialize"}}
    \cup {Request("PUT", TRUE, "", "undefined", NoFields)}
    \cup {Request("POST", TRUE, "", k, NoFields) : k \in EmptyKinds}
    \cup {Request("POST", TRUE, "", "object", f) : f \in PlainFields \cup CallFields}
    \cup {Request("POST", TRUE, "", "jsonString", f) : f \in PlainFields}
    \cup {Request(m, FALSE, "", "undefined", NoFields) : m \in {"GET", "PUT", "POST"}}
    \cup {Request("POST", FALSE, "", "object",
                  Fields(Str("2.0"), Int_(7), m, Str("ads_search"),
                         ArgsObj(Str("SELECT campaign.id FROM campaign"), Int_(5), Undef,
                                 DateRangeOther("undef"), Undef))) :
            m \in MethodValues}

(***************************************************************************)
(* The state machine.                                                      *)
(***************************************************************************)
Frame(op, name, args, req, h, listed) ==
    [op |-> op, name |-> name, args |-> args, req |-> req, resp |-> h.resp,
     listCalls |-> h.listCalls, callCalls |-> h.callCalls, out |-> h.out,
     listed |-> listed]

IdleFrame ==
    Frame("idle", "", ArgsOther("undef"), NoRequest,
          Handled(NoResponse, 0, 0, NoOutcome), <<>>)

Init ==
    /\ env \in [devToken : BOOLEAN, customerId : BOOLEAN, hasCreds : BOOLEAN,
                gate : BOOLEAN]
    /\ tools = ToolsTable
    /\ firstList = <<>>
    /\ listings = 0
    /\ cur = IdleFrame

\* What the listing history becomes when listAdsTools is called `n` times.
Listed(n) == IF n > 0 /\ listings = 0 THEN listAdsTools ELSE firstList

Counted(n) == IF listings + n > MaxListings THEN MaxListings ELSE listings + n

\* A direct call of the export listAdsTools.
ListTools ==
    /\ cur.op = "idle"
    /\ cur' = Frame("list", "", ArgsOther("undef"), NoRequest,
                    Handled(NoResponse, 1, 0, NoOutcome), listAdsTools)
    /\ firstList' = Listed(1)
    /\ listings' = Counted(1)
    /\ UNCHANGED <<env, tools>>

\* A direct call of the export callAdsTool.
CallTool ==
    /\ cur.op = "idle"
    /\ \E name \in Names, args \in Arguments, tokenOk \in BOOLEAN,
          upstream \in UpstreamResponses :
          cur' = Frame("call", name, args, NoRequest,
                       Handled(NoResponse, 0, 1,
                               callAdsTool(name, args, tokenOk, upstream)), <<>>)
    /\ UNCHANGED <<env, tools, firstList, listings>>

\* One request served by the handler of src/unnamed/part_000.
Handler ==
    /\ cur.op = "idle"
    /\ \E req \in Requests, tokenOk \in BOOLEAN, upstream \in UpstreamResponses :
          LET h == handlerReply(req, tokenOk, upstream)
          IN  /\ cur' = Frame("handler", "", ArgsOther("undef"), req, h,
                              IF h.listCalls > 0 THEN listAdsTools ELSE <<>>)
              /\ firstList' = Listed(h.listCalls)
              /\ listings' = Counted(h.listCalls)
    /\ UNCHANGED <<env, tools>>

\* One request served by the handler of src/api/mcp.ts.
HandlerMcp ==
    /\ cur.op = "idle"
    /\ \E req \in Requests, tokenOk \in BOOLEAN, upstream \in UpstreamResponses :
          LET h == handlerMcpReply(req, tokenOk, upstream)
          IN  /\ cur' = Frame("handlerMcp", "", ArgsOther("undef"), req, h,
                              IF h.listCalls > 0 THEN listAdsTools ELSE <<>>)
              /\ firstList' = Listed(h.listCalls)
              /\ listings' = Counted(h.listCalls)
    /\ UNCHANGED <<env, tools>>

\* The invocation returns; nothing of it is kept.
Finish ==
    /\ cur.op # "idle"
    /\ cur' = IdleFrame
    /\ UNCHANGED <<env, tools, firstList, listings>>

Next == ListTools \/ CallTool \/ Handler \/ HandlerMcp \/ Finish

Spec == Init /\ [][Next]_vars

(***************************************************************************)
(* Vocabulary of the properties.                                           *)
(***************************************************************************)
\* The frame is a POST request served by either version of the handler.
IsPost == cur.op \in {"handler", "handlerMcp"} /\ cur.req.httpMethod = "POST"

\* The request body is, or parses to, an object.
BodyReadable == cur.req.bodyKind \in ObjectKinds

\* The frame is one callAdsTool invocation, made directly or by a handler.
IsToolCall == cur.op # "idle" /\ cur.callCalls = 1

CalledName == IF cur.op = "call" THEN cur.name ELSE cur.req.fields.name.s

CalledArgs ==
    IF cur.op = "call" THEN cur.args
    ELSE IF cur.req.fields.arguments.t \in {"undef", "null"} THEN EmptyArgs
    ELSE cur.req.fields.arguments

RegisteredNames == {"ads_search", "ads_top_campaigns"}

\* s contains sub as a substring.
Contains(s, sub) ==
    \E i \in 1..(Len(s) - Len(sub) + 1) : SubSeq(s, i, i + Len(sub) - 1) = sub

\* The requests to the reporting API among the outbound calls of the frame.
SearchCalls == SelectSeq(cur.out.net, LAMBDA c : c.kind = "search")

TokenCalls == SelectSeq(cur.out.net, LAMBDA c : c.kind = "token")

\* The response reports a failure.
IsFailure == cur.resp.code # 0 \/ cur.resp.status >= 400

(***************************************************************************)
(* C1 (as stated).  Every response body to a POST request contains exactly *)
(* one of the keys result and error.                                       *)
(***************************************************************************)
C1_ExactlyOneOfResultError ==
    IsPost => (("result" \in cur.resp.keys) # ("error" \in cur.resp.keys))

(***************************************************************************)
(* C1 (amended).  A response body to a POST request never contains both    *)
(* result and error; a failure always carries error; a success carries     *)
(* result when the request body has a truthy jsonrpc field, and otherwise  *)
(* is the bare result object, with neither key.                            *)
(***************************************************************************)
C1_EnvelopeKeys ==
    IsPost =>
        LET k == cur.resp.keys
            wrapped == BodyReadable /\ Truthy(cur.req.fields.jsonrpc)
        IN  /\ ~({"result", "error"} \subseteq k)
            /\ (IsFailure => "error" \in k)
            /\ (~IsFailure /\ wrapped => "result" \in k)
            /\ (~IsFailure /\ ~wrapped => k \cap {"result", "error"} = {})

C1_Witness ==
    /\ IsPost
    /\ BodyReadable
    /\ ~Truthy(cur.req.fields.jsonrpc)
    /\ cur.out.kind = "result"
    /\ cur.resp.keys = {"content", "structuredContent"}

(***************************************************************************)
(* C2 (as stated).  For a tools.call request, an unregistered name or      *)
(* invalid arguments yield the invalid-arguments code, and never the       *)
(* upstream-failure code that a non-success upstream response yields.      *)
(***************************************************************************)
C2_ErrorCodeByCategory ==
    IsPost /\ cur.callCalls = 1 =>
        /\ (cur.out.kind \in {"UnknownTool", "ZodError"} => cur.resp.code = -32602)
        /\ (cur.out.kind = "Upstream" => cur.resp.code = -32000)
        /\ (cur.resp.code = -32000 => cur.out.kind \notin {"UnknownTool", "ZodError"})

(***************************************************************************)
(* C3.  callAdsTool makes no outbound call (credential exchange or         *)
(* reporting request) and fails, whenever the name is not registered, the  *)
(* pageSize of ads_search is outside [1, 10000] or the limit of            *)
(* ads_top_campaigns is outside [1, 1000]; an outbound call is made only   *)
(* for a registered name whose arguments pass validation.                  *)
(***************************************************************************)
OutOfBounds(v, lo, hi) == v.t = "int" /\ (v.n < lo \/ v.n > hi)

C3_NoCallWithoutValidation ==
    IsToolCall =>
        /\ (\/ CalledName \notin RegisteredNames
            \/ CalledName = "ads_search" /\ OutOfBounds(CalledArgs.pageSize, 1, 10000)
            \/ CalledName = "ads_top_campaigns" /\ OutOfBounds(CalledArgs.limit, 1, 1000))
           => cur.out.kind # "result" /\ cur.out.net = <<>>
        /\ cur.out.net # <<>> =>
              CalledName \in RegisteredNames /\ validate(CalledName, CalledArgs).ok

C3_Witness ==
    /\ cur.op = "call"
    /\ cur.name = "ads_search"
    /\ cur.args.gaql = Str("SELECT campaign.id FROM campaign")
    /\ cur.args.pageSize = Int_(20000)
    /\ env.devToken /\ env.customerId /\ env.hasCreds
    /\ cur.out.kind = "ZodError"
    /\ cur.out.net = <<>>

(***************************************************************************)
(* C4 (as stated).  For a registered tool, arguments that carry a key the  *)
(* tool's input schema does not declare (also inside dateRange) fail       *)
(* validation.                                                             *)
(***************************************************************************)
HasUndeclaredKey(name, a) ==
    /\ a.t = "obj"
    /\ \/ ~(Present(a) \subseteq DOMAIN tools[name].inputSchema.properties)
       \/ /\ name = "ads_top_campaigns"
          /\ a.dateRange.t = "obj"
          /\ ~(PresentInRange(a.dateRange) \subseteq {"startDate", "endDate"})

C4_UndeclaredKeyRejected ==
    IsToolCall /\ CalledName \in RegisteredNames /\ HasUndeclaredKey(CalledName, CalledArgs)
        => cur.out.kind = "ZodError"

(***************************************************************************)
(* C5 (as stated).  For arguments that conform to the input schema the     *)
(* tool publishes, callAdsTool never fails with a validation error.        *)
(***************************************************************************)
C5_ConformingNeverInvalid ==
    /\ IsToolCall
    /\ CalledName \in RegisteredNames
    /\ SchemaAccepts(tools[CalledName].inputSchema, CalledArgs)
    => cur.out.kind # "ZodError"

(***************************************************************************)
(* C6 (as stated).  A POST request that carries an id gets a response      *)
(* that carries the same id, on every path.  (Stated for requests that     *)
(* pass the bearer gate.)                                                  *)
(***************************************************************************)
C6_IdEchoedOnEveryPath ==
    /\ IsPost
    /\ ~(env.gate /\ ~cur.req.authOk)
    /\ BodyReadable
    /\ cur.req.fields.id.t \notin {"undef", "null"}
    => cur.resp.id = cur.req.fields.id

(***************************************************************************)
(* C6 (amended).  When a POST request passes the bearer gate and its body  *)
(* has a truthy jsonrpc field, the response carries the request's id       *)
(* unchanged on every path (result, routed error, missing method,          *)
(* unsupported method), and a null id when the request has none or a null  *)
(* one; every other response to a POST request carries no id at all.       *)
(***************************************************************************)
C6_IdEchoedUnderJsonRpc ==
    IsPost =>
        IF ~(env.gate /\ ~cur.req.authOk) /\ BodyReadable /\ Truthy(cur.req.fields.jsonrpc)
        THEN IF cur.req.fields.id.t \in {"undef", "null"}
             THEN cur.resp.id = Null
             ELSE cur.resp.id = cur.req.fields.id
        ELSE cur.resp.id = Undef

C6_Witness ==
    /\ IsPost
    /\ Truthy(cur.req.fields.jsonrpc)
    /\ cur.req.fields.id = Int_(0)
    /\ cur.resp.id = Int_(0)
    /\ cur.resp.code = -32000
    /\ "error" \in cur.resp.keys

(***************************************************************************)
(* C7 (as stated).  A callAdsTool invocation whose arguments passed        *)
(* validation issues exactly one request to the reporting API.             *)
(***************************************************************************)
Validated == CalledName \in RegisteredNames /\ validate(CalledName, CalledArgs).ok

C7_ExactlyOneOutboundCall ==
    IsToolCall /\ Validated => Len(SearchCalls) = 1

(***************************************************************************)
(* C7 (amended).  listAdsTools makes no outbound call.  A callAdsTool      *)
(* invocation makes at most one credential exchange and at most one        *)
(* request to the reporting API, never a second one after a success or a   *)
(* failure.  With validated arguments the request is made exactly when the *)
(* required settings are present and the credential exchange yields a      *)
(* token (the call then returns a result or fails with the upstream        *)
(* error), and it carries the validated page size and, for ads_search, the *)
(* validated query; otherwise no request is made.                          *)
(***************************************************************************)
C7_AtMostOneRequest ==
    /\ cur.op # "idle" /\ cur.callCalls = 0 => cur.out.net = <<>>
    /\ IsToolCall =>
          /\ Len(SearchCalls) <= 1
          /\ Len(TokenCalls) <= 1
          /\ (Len(SearchCalls) = 1 <=> cur.out.kind \in {"result", "Upstream"})
          /\ (Len(SearchCalls) = 1 => Validated /\ Len(TokenCalls) = 1)
          /\ (Validated =>
                cur.out.kind \in {"result", "Upstream", "MissingEnv", "Credential"})
          /\ (Validated /\ cur.out.kind = "MissingEnv" =>
                ~(env.devToken /\ env.customerId) /\ cur.out.net = <<>>)
          /\ (Validated /\ env.devToken /\ env.customerId /\ ~env.hasCreds =>
                cur.out.kind = "Credential" /\ cur.out.net = <<>>)
          /\ (Len(SearchCalls) = 1 /\ CalledName = "ads_search" =>
                /\ SearchCalls[1].query = CalledArgs.gaql.s
                /\ SearchCalls[1].pageSize =
                      (IF CalledArgs.pageSize.t = "undef" THEN 1000
                       ELSE CalledArgs.pageSize.n))
          /\ (Len(SearchCalls) = 1 /\ CalledName = "ads_top_campaigns" =>
                SearchCalls[1].pageSize =
                    (IF CalledArgs.limit.t = "undef" THEN 10 ELSE CalledArgs.limit.n))

C7_Witness ==
    /\ cur.op = "call"
    /\ cur.name = "ads_search"
    /\ cur.out.kind = "Upstream"
    /\ cur.out.net = <<TokenCall, SearchCall("SELECT campaign.id FROM campaign", 5)>>

(***************************************************************************)
(* C8 (as stated).  A POST request without a method (absent, empty, or a   *)
(* body that does not parse to an object) gets an error envelope with code *)
(* -32600, and neither listAdsTools nor callAdsTool nor any outbound call  *)
(* happens.  (Stated for requests that pass the bearer gate.)              *)
(***************************************************************************)
C8_MissingMethodIsInvalidRequest ==
    /\ IsPost
    /\ ~(env.gate /\ ~cur.req.authOk)
    /\ (~BodyReadable \/ ~Truthy(cur.req.fields.method))
    => /\ "error" \in cur.resp.keys
       /\ cur.resp.code = -32600
       /\ cur.listCalls = 0
       /\ cur.callCalls = 0
       /\ cur.out.net = <<>>

(***************************************************************************)
(* C9.  For ads_top_campaigns with validated arguments, the query sent     *)
(* upstream contains BETWEEN 'start' AND 'end' and LIMIT L, and the        *)
(* request's pageSize is L, where L is the limit given (10 when omitted)   *)
(* and (start, end) the date range given ((LAST_7_DAYS, TODAY) when        *)
(* omitted); the summary of a result names the same start and end.         *)
(***************************************************************************)
EffectiveLimit == IF CalledArgs.limit.t = "undef" THEN 10 ELSE CalledArgs.limit.n

EffectiveStart ==
    IF CalledArgs.dateRange.t = "undef" THEN "LAST_7_DAYS"
    ELSE CalledArgs.dateRange.startDate.s

EffectiveEnd ==
    IF CalledArgs.dateRange.t = "undef" THEN "TODAY" ELSE CalledArgs.dateRange.endDate.s

C9_TopCampaignsQuery ==
    IsToolCall /\ CalledName = "ads_top_campaigns" /\ Len(SearchCalls) > 0 =>
        /\ Len(SearchCalls) = 1
        /\ EffectiveLimit \in 1..1000
        /\ Contains(SearchCalls[1].query,
                    "BETWEEN '" \o EffectiveStart \o "' AND '" \o EffectiveEnd \o "'\n")
        /\ Contains(SearchCalls[1].query, " LIMIT " \o ToString(EffectiveLimit) \o "\n")
        /\ SearchCalls[1].pageSize = EffectiveLimit
        /\ (cur.out.kind = "result" =>
              Contains(cur.out.text, "(" \o EffectiveStart \o ".." \o EffectiveEnd \o ")"))

C9_Witness ==
    /\ cur.op = "call"
    /\ cur.name = "ads_top_campaigns"
    /\ cur.args.limit = Int_(3)
    /\ cur.args.dateRange.t = "undef"
    /\ cur.out.kind = "result"
    /\ Len(SearchCalls) = 1
    /\ SearchCalls[1].pageSize = 3
    /\ Contains(SearchCalls[1].query, "BETWEEN 'LAST_7_DAYS' AND 'TODAY'")
    /\ Contains(SearchCalls[1].query, "LIMIT 3")
    /\ cur.out.text = "Top 2 campaigns by clicks (LAST_7_DAYS..TODAY)."

(***************************************************************************)
(* C10.  Whatever invocations came before, a listing holds exactly one     *)
(* descriptor per registered tool name, every input schema it returns sets *)
(* additionalProperties to false, and it is identical to the first listing *)
(* ever returned; the registry itself never changes.                       *)
(***************************************************************************)
C10_ListingStable ==
    /\ tools = ToolsTable
    /\ cur.op # "idle" /\ cur.listCalls > 0 =>
          /\ cur.listed = firstList
          /\ Len(cur.listed) = Cardinality(RegisteredNames)
          /\ \A n \in RegisteredNames :
                Cardinality({i \in 1..Len(cur.listed) : cur.listed[i].name = n}) = 1
          /\ \A i \in 1..Len(cur.listed) :
                /\ cur.listed[i].inputSchema.additionalProperties = FALSE
                /\ cur.listed[i].input_schema.additionalProperties = FALSE
                /\ cur.listed[i].parameters.additionalProperties = FALSE

C10_Witness ==
    /\ cur.op = "list"
    /\ listings = MaxListings
    /\ cur.listed = firstList
    /\ Len(cur.listed) = 2

====
